---- MODULE Spec2Model ----
(***************************************************************************)
(* Sketch-to-image generation service: the module-level model handles of   *)
(* backend/model_handler.py (load_model, preprocess_sketch,                *)
(* generate_image) and the request handlers of backend/app.py              *)
(* (POST /generate, GET /models/status).                                   *)
(*                                                                         *)
(* Every action is one step of the Python code, named after the function   *)
(* and the source line it starts at.  External library calls              *)
(* (from_pretrained, .to(device), Image.open, the pipeline call, ...) are  *)
(* black boxes that either return or raise.                                *)
(***************************************************************************)
EXTENDS Integers, Sequences, FiniteSets, TLC

\* ------------------------------------------------------------------ bounds

\* Number of callers / in-flight requests the model tracks.
NumTasks == 2
\* Largest number of model objects of one kind constructed in a run.
MaxObj == 2

Tasks == 1..NumTasks
ObjIds == 1..MaxObj

\* --------------------------------------------------------------- constants

\* Python's None for a module-level handle.
None == 0

NoExc == ""
NoPrompt == "-"

DEFAULT_PROMPT == "high quality, detailed, realistic"
NEGATIVE_PROMPT == "low quality, blurry, distorted, deformed, ugly, bad anatomy"
IMAGE_PREFIX == "image/"
FAILED_PREFIX == "Generation failed: "

\* Side of the square the sketch is resampled to.
TARGET_SIDE == 512
\* Sampling parameters of the pipeline call.
INFERENCE_STEPS == 20
GUIDANCE_SCALE == "7.5"
CONDITIONING_SCALE == "1.0"

\* Messages of the exceptions the external calls raise.
E_CONTROLNET == "controlnet weights unavailable"
E_PIPELINE == "pipeline weights unavailable"
E_TO_DEVICE == "out of memory moving pipeline"
E_HED == "annotator weights unavailable"
E_DECODE == "cannot identify image file"
E_RESAMPLE == "image file is truncated"
E_EDGES == "edge extraction failed"
E_INFERENCE == "out of memory during inference"
E_ENCODE == "cannot write mode as PNG"
E_NONE_ATTR == "'NoneType' object has no attribute 'startswith'"
E_NONE_CALL == "'NoneType' object is not callable"

\* ------------------------------------------------------------------ inputs

\* UploadFile.content_type: a string, or None when the part declares none.
CT(s) == [isNone |-> FALSE, text |-> s]
CT_NONE == [isNone |-> TRUE, text |-> ""]
ContentTypes == {CT("image/png"), CT("text/plain"), CT("image"), CT_NONE}

\* The prompt form field (default ""); " " is non-empty, hence truthy.
Prompts == {"", "a red balloon", " "}

\* Sketches: arbitrary dimensions and colour mode; src names the caller.
SketchShapes == {[size |-> <<1024, 768>>, mode |-> "RGBA"], [size |-> <<64, 64>>, mode |-> "L"]}
NoImage == [src |-> 0, size |-> <<0, 0>>, mode |-> "", edges |-> FALSE]
Sketch(t, shape) == [src |-> t, size |-> shape.size, mode |-> shape.mode, edges |-> FALSE]

NoResp == [code |-> 0, prompt |-> NoPrompt, detail |-> "", size |-> <<0, 0>>]
NoStatus == [models_loaded |-> FALSE, status |-> "none"]
NoCall == [prompt |-> NoPrompt, negative_prompt |-> "", image |-> NoImage,
           num_inference_steps |-> 0, guidance_scale |-> "",
           controlnet_conditioning_scale |-> "", pipe |-> None]

\* ------------------------------------------------------------------- state

VARIABLES
    host,          \* which entry point runs: "server" (app.py) or "library" (model_handler.py)
    mps,           \* torch.backends.mps.is_available()
    pipeline,      \* model_handler.pipeline: None or the id of a pipeline object
    preprocessor,  \* model_handler.preprocessor: None or the id of a HED detector
    onDevice,      \* per pipeline object: the device its .to(device) completed on, or "unmoved"
    pipesBuilt,    \* pipeline objects constructed so far
    presBuilt,     \* HED detectors constructed so far
    running,       \* the task that holds the interpreter's main thread, or 0
    task,          \* per task: operation, position, arguments, locals, result
    statusResp,    \* body of the latest GET /models/status response
    statusAt,      \* what held when that response was computed
    genMade,       \* a POST /generate request has been made
    genSucceeded,  \* a POST /generate request has returned success
    firstLoadRet,  \* the handle returned by the first load_model call that returned
    lastLoad       \* how the latest finished load_model call ended

vars == <<host, mps, pipeline, preprocessor, onDevice, pipesBuilt, presBuilt, running,
          task, statusResp, statusAt, genMade, genSucceeded, firstLoadRet, lastLoad>>

handles == <<pipeline, preprocessor, onDevice, pipesBuilt, presBuilt>>
env == <<host, mps>>
status == <<statusResp, statusAt>>
history == <<genMade, genSucceeded, firstLoadRet, lastLoad>>

Idle == [op |-> "idle", pc |-> "idle", ctype |-> CT_NONE, prompt |-> NoPrompt,
         upload |-> NoImage, sketch |-> NoImage, gprompt |-> NoPrompt, device |-> "", exc |-> NoExc,
         steps |-> {}, tried |-> <<>>, ret |-> None, control |-> NoImage, call |-> NoCall,
         resp |-> NoResp, responses |-> 0]

Init ==
    /\ host \in {"server", "library"}
    /\ mps \in BOOLEAN
    /\ pipeline = None
    /\ preprocessor = None
    /\ onDevice = [i \in ObjIds |-> "unmoved"]
    /\ pipesBuilt = 0
    /\ presBuilt = 0
    /\ running = 0
    /\ task = [t \in Tasks |-> Idle]
    /\ statusResp = NoStatus
    /\ statusAt = [made |-> FALSE, succeeded |-> FALSE, pipe |-> None]
    /\ genMade = FALSE
    /\ genSucceeded = FALSE
    /\ firstLoadRet = None
    /\ lastLoad = "none"

\* ----------------------------------------------------------------- helpers

\* Mutant of Scheduled: the operations run on threads of their own (a
\* `def` endpoint served from the thread pool) instead of on the event loop.
Scheduled_OnThreads(t) == TRUE

\* Task t may take a step: no other task holds the main thread.  A
\* coroutine of the `async def` endpoint keeps the event loop from one await
\* to the next, and so does each synchronous call it makes; a direct caller
\* is the only thread of its script.
Scheduled(t) == running \in {0, t}

At(t, label) == task[t].pc = label /\ Scheduled(t)

\* str.startswith
StartsWith(s, p) == Len(s) >= Len(p) /\ SubSeq(s, 1, Len(p)) = p

\* Task t goes on as `rec` and keeps the main thread.  An operation that
\* is over sits at "done" with its result until its caller takes it.
Move(t, rec) ==
    /\ task' = [task EXCEPT ![t] = rec]
    /\ running' = t

\* Where an exception that leaves model_handler's functions lands: in
\* generate_endpoint's `except Exception`, or at the direct caller.
Handler(t) == IF task[t].op = "generate_endpoint" THEN "ge_179" ELSE "done"

Raise(t, msg) == Move(t, [task[t] EXCEPT !.pc = Handler(t), !.exc = msg])

\* ------------------------------------------------- model_handler.load_model

\* Mutant of IsLoaded: the cache check never finds the stored handle.
IsLoaded_NeverCached(p) == FALSE

\* `if pipeline is not None` at the head of load_model and generate_image.
IsLoaded(p) == p # None

\* Device selection: the accelerator if present, else the CPU.
SelectDevice(available) == IF available THEN "mps" ELSE "cpu"

\* A direct call of load_model().
CallLoadModel(t) ==
    /\ host = "library"
    /\ Scheduled(t)
    /\ task[t].op = "idle"
    /\ Move(t, [Idle EXCEPT !.op = "load_model", !.pc = "lm_31"])
    /\ UNCHANGED <<env, handles, status, history>>

\* Lines 31-33: return the cached pipeline if already loaded.
load_model_31(t) ==
    /\ At(t, "lm_31")
    /\ Move(t, [task[t] EXCEPT !.pc = IF IsLoaded(pipeline) THEN "lm_33" ELSE "lm_39"])
    /\ UNCHANGED <<env, handles, status, history>>

\* Lines 39-44: choose the device.
load_model_39(t) ==
    /\ At(t, "lm_39")
    /\ Move(t, [task[t] EXCEPT !.pc = "lm_49", !.device = SelectDevice(mps)])
    /\ UNCHANGED <<env, handles, status, history>>

\* Lines 49-52: ControlNetModel.from_pretrained returns or raises.
load_model_49(t) ==
    /\ At(t, "lm_49")
    /\ \/ Move(t, [task[t] EXCEPT !.pc = "lm_56", !.steps = @ \cup {"lm_49"}, !.tried = Append(@, "lm_49")])
       \/ Move(t, [task[t] EXCEPT !.pc = "lm_74", !.exc = E_CONTROLNET,
                                  !.steps = @ \cup {"lm_49"}, !.tried = Append(@, "lm_49")])
    /\ UNCHANGED <<env, handles, status, history>>

\* Lines 56-61: the module-level pipeline is assigned the new, unmoved
\* pipeline object as soon as from_pretrained returns.
load_model_56(t) ==
    /\ At(t, "lm_56")
    /\ \/ /\ pipesBuilt < MaxObj
          /\ pipesBuilt' = pipesBuilt + 1
          /\ pipeline' = pipesBuilt + 1
          /\ Move(t, [task[t] EXCEPT !.pc = "lm_64", !.steps = @ \cup {"lm_56"}, !.tried = Append(@, "lm_56")])
       \/ /\ Move(t, [task[t] EXCEPT !.pc = "lm_74", !.exc = E_PIPELINE,
                                     !.steps = @ \cup {"lm_56"}, !.tried = Append(@, "lm_56")])
          /\ UNCHANGED <<pipesBuilt, pipeline>>
    /\ UNCHANGED <<env, preprocessor, onDevice, presBuilt, status, history>>

\* Line 64: pipeline = pipeline.to(device); .to moves the object in place
\* and returns it.
load_model_64(t) ==
    /\ At(t, "lm_64")
    /\ \/ /\ onDevice' = [onDevice EXCEPT ![pipeline] = task[t].device]
          /\ Move(t, [task[t] EXCEPT !.pc = "lm_68", !.steps = @ \cup {"lm_64"}, !.tried = Append(@, "lm_64")])
       \/ /\ Move(t, [task[t] EXCEPT !.pc = "lm_74", !.exc = E_TO_DEVICE,
                                     !.steps = @ \cup {"lm_64"}, !.tried = Append(@, "lm_64")])
          /\ UNCHANGED onDevice
    /\ UNCHANGED <<env, pipeline, preprocessor, pipesBuilt, presBuilt, status, history>>

\* Line 68: the preprocessor is constructed and assigned, whatever it held.
load_model_68(t) ==
    /\ At(t, "lm_68")
    /\ \/ /\ presBuilt < MaxObj
          /\ presBuilt' = presBuilt + 1
          /\ preprocessor' = presBuilt + 1
          /\ Move(t, [task[t] EXCEPT !.pc = "lm_71", !.steps = @ \cup {"lm_68"}, !.tried = Append(@, "lm_68")])
       \/ /\ Move(t, [task[t] EXCEPT !.pc = "lm_74", !.exc = E_HED,
                                     !.steps = @ \cup {"lm_68"}, !.tried = Append(@, "lm_68")])
          /\ UNCHANGED <<presBuilt, preprocessor>>
    /\ UNCHANGED <<env, pipeline, onDevice, pipesBuilt, status, history>>

\* Where load_model's caller continues: the direct caller is done,
\* generate_image goes on to preprocessing (line 135).
AfterLoad(t) == IF task[t].op = "load_model" THEN "done" ELSE "gi_137"

\* Lines 33 and 71: return pipeline.
load_model_return(t) ==
    /\ \/ At(t, "lm_33")
       \/ At(t, "lm_71")
    /\ Move(t, [task[t] EXCEPT !.pc = AfterLoad(t), !.ret = pipeline])
    /\ firstLoadRet' = IF firstLoadRet = None THEN pipeline ELSE firstLoadRet
    /\ lastLoad' = "returned"
    /\ UNCHANGED <<env, handles, status, genMade, genSucceeded>>

\* Mutant of load_model_74: a failed ControlNet download is tried again
\* once before the exception is re-raised.
load_model_74_RetryOnce(t) ==
    /\ At(t, "lm_74")
    /\ IF task[t].tried = <<"lm_49">>
       THEN /\ Move(t, [task[t] EXCEPT !.pc = "lm_49", !.exc = NoExc])
            /\ UNCHANGED lastLoad
       ELSE /\ Move(t, [task[t] EXCEPT !.pc = Handler(t)])
            /\ lastLoad' = "raised"
    /\ UNCHANGED <<env, handles, status, genMade, genSucceeded, firstLoadRet>>

\* Lines 73-75: the except clause prints and re-raises; nothing is undone.
load_model_74(t) ==
    /\ At(t, "lm_74")
    /\ Move(t, [task[t] EXCEPT !.pc = Handler(t)])
    /\ lastLoad' = "raised"
    /\ UNCHANGED <<env, handles, status, genMade, genSucceeded, firstLoadRet>>

\* -------------------------------------------- model_handler.preprocess_sketch

\* image.convert("RGB")
ConvertRGB(img) == [img EXCEPT !.mode = "RGB"]

\* image.resize((512, 512), LANCZOS)
Resize(img) == [img EXCEPT !.size = <<TARGET_SIDE, TARGET_SIDE>>]

\* preprocessor(image, scribble=True)
Scribble(img) == [img EXCEPT !.edges = TRUE]

\* A direct call of preprocess_sketch(image_input).
CallPreprocessSketch(t) ==
    /\ host = "library"
    /\ Scheduled(t)
    /\ task[t].op = "idle"
    /\ \E shape \in SketchShapes :
          Move(t, [Idle EXCEPT !.op = "preprocess_sketch", !.pc = "ps_91",
                               !.sketch = Sketch(t, shape)])
    /\ UNCHANGED <<env, handles, status, history>>

\* Mutant of preprocess_sketch_91: a loaded pipeline is taken to mean that
\* the preprocessor is loaded too.
preprocess_sketch_91_TrustsPipeline(t) ==
    /\ At(t, "ps_91")
    /\ Move(t, [task[t] EXCEPT !.pc = IF pipeline = None THEN "ps_93" ELSE "ps_96"])
    /\ UNCHANGED <<env, handles, status, history>>

\* Line 91: load the preprocessor if not already loaded.
preprocess_sketch_91(t) ==
    /\ At(t, "ps_91")
    /\ Move(t, [task[t] EXCEPT !.pc = IF preprocessor = None THEN "ps_93" ELSE "ps_96"])
    /\ UNCHANGED <<env, handles, status, history>>

\* Line 93: HEDdetector.from_pretrained returns or raises.
preprocess_sketch_93(t) ==
    /\ At(t, "ps_93")
    /\ \/ /\ presBuilt < MaxObj
          /\ presBuilt' = presBuilt + 1
          /\ preprocessor' = presBuilt + 1
          /\ Move(t, [task[t] EXCEPT !.pc = "ps_96", !.steps = @ \cup {"ps_93"}, !.tried = Append(@, "ps_93")])
       \/ /\ Move(t, [task[t] EXCEPT !.pc = Handler(t), !.exc = E_HED,
                                     !.steps = @ \cup {"ps_93"}, !.tried = Append(@, "ps_93")])
          /\ UNCHANGED <<presBuilt, preprocessor>>
    /\ UNCHANGED <<env, pipeline, onDevice, pipesBuilt, status, history>>

\* Lines 96-105: open, convert to RGB, resize to 512x512.
preprocess_sketch_96(t) ==
    /\ At(t, "ps_96")
    /\ \/ Move(t, [task[t] EXCEPT !.pc = "ps_109", !.tried = Append(@, "ps_96"),
                                  !.control = Resize(ConvertRGB(task[t].sketch))])
       \/ Move(t, [task[t] EXCEPT !.pc = Handler(t), !.tried = Append(@, "ps_96"),
                                  !.exc = E_RESAMPLE])
    /\ UNCHANGED <<env, handles, status, history>>

\* Where preprocess_sketch's caller continues.
AfterPreprocess(t) == IF task[t].op = "preprocess_sketch" THEN "done" ELSE "gi_140"

\* Lines 109-111: edge extraction with the module-level preprocessor.
preprocess_sketch_109(t) ==
    /\ At(t, "ps_109")
    /\ \/ /\ preprocessor # None
          /\ Move(t, [task[t] EXCEPT !.pc = AfterPreprocess(t), !.control = Scribble(@),
                                     !.tried = Append(@, "ps_109")])
       \/ /\ preprocessor # None
          /\ Move(t, [task[t] EXCEPT !.pc = Handler(t), !.exc = E_EDGES,
                                     !.tried = Append(@, "ps_109")])
       \/ /\ preprocessor = None
          /\ Move(t, [task[t] EXCEPT !.pc = Handler(t), !.exc = E_NONE_CALL,
                                     !.tried = Append(@, "ps_109")])
    /\ UNCHANGED <<env, handles, status, history>>

\* ---------------------------------------------- model_handler.generate_image

\* Mutant of EffectivePrompt: the default replaces every prompt.
EffectivePrompt_AlwaysDefault(p) == DEFAULT_PROMPT

\* Mutant of EffectivePrompt: the prompt is passed on as it came.
EffectivePrompt_Keep(p) == p

\* Lines 140-141: the default prompt replaces an empty one.
EffectivePrompt(p) == IF p = "" THEN DEFAULT_PROMPT ELSE p

\* A direct call of generate_image(sketch_image, prompt).
CallGenerateImage(t) ==
    /\ host = "library"
    /\ Scheduled(t)
    /\ task[t].op = "idle"
    /\ \E shape \in SketchShapes, p \in Prompts :
          Move(t, [Idle EXCEPT !.op = "generate_image", !.pc = "gi_131",
                               !.sketch = Sketch(t, shape), !.prompt = p,
                               !.gprompt = p])
    /\ UNCHANGED <<env, handles, status, history>>

\* Mutant of generate_image_131: preprocessing starts without the cache
\* having been consulted.
generate_image_131_PreprocessFirst(t) ==
    /\ At(t, "gi_131")
    /\ Move(t, [task[t] EXCEPT !.pc = "ps_91"])
    /\ UNCHANGED <<env, handles, status, history>>

\* Lines 131-133: load the model if not already loaded.
generate_image_131(t) ==
    /\ At(t, "gi_131")
    /\ Move(t, [task[t] EXCEPT !.pc = IF IsLoaded(pipeline) THEN "gi_137" ELSE "lm_31"])
    /\ UNCHANGED <<env, handles, status, history>>

\* Line 137: control_image = preprocess_sketch(sketch_image).
generate_image_137(t) ==
    /\ At(t, "gi_137")
    /\ Move(t, [task[t] EXCEPT !.pc = "ps_91"])
    /\ UNCHANGED <<env, handles, status, history>>

\* Lines 140-144: default prompt, fixed negative prompt.
generate_image_140(t) ==
    /\ At(t, "gi_140")
    /\ Move(t, [task[t] EXCEPT !.pc = "gi_151", !.gprompt = EffectivePrompt(@)])
    /\ UNCHANGED <<env, handles, status, history>>

\* Mutant of PipelineCall: the conditioning image is kept in one slot
\* shared by all requests, the one of the first request.
PipelineCall_SharedImage(t) ==
    [prompt |-> task[t].gprompt, negative_prompt |-> NEGATIVE_PROMPT,
     image |-> Scribble(Resize(ConvertRGB(task[1].upload))),
     num_inference_steps |-> INFERENCE_STEPS,
     guidance_scale |-> GUIDANCE_SCALE,
     controlnet_conditioning_scale |-> CONDITIONING_SCALE, pipe |-> pipeline]

\* The keyword arguments of the pipeline call, lines 151-158.
PipelineCall(t) ==
    [prompt |-> task[t].gprompt, negative_prompt |-> NEGATIVE_PROMPT,
     image |-> task[t].control, num_inference_steps |-> INFERENCE_STEPS,
     guidance_scale |-> GUIDANCE_SCALE,
     controlnet_conditioning_scale |-> CONDITIONING_SCALE, pipe |-> pipeline]

\* Where generate_image's caller continues.
AfterGenerate(t) == IF task[t].op = "generate_image" THEN "done" ELSE "ge_158"

\* Lines 149-168: one call of the module-level pipeline; the except clause
\* prints and re-raises.
generate_image_151(t) ==
    /\ At(t, "gi_151")
    /\ \/ /\ pipeline # None
          /\ Move(t, [task[t] EXCEPT !.pc = AfterGenerate(t), !.call = PipelineCall(t),
                                     !.tried = Append(@, "gi_151")])
       \/ /\ pipeline # None
          /\ Move(t, [task[t] EXCEPT !.pc = Handler(t), !.exc = E_INFERENCE,
                                     !.call = PipelineCall(t),
                                     !.tried = Append(@, "gi_151")])
       \/ /\ pipeline = None
          /\ Move(t, [task[t] EXCEPT !.pc = Handler(t), !.exc = E_NONE_CALL,
                                     !.tried = Append(@, "gi_151")])
    /\ UNCHANGED <<env, handles, status, history>>

\* ------------------------------------------------------ app.generate_endpoint

\* Line 134: `not file.content_type.startswith("image/")`; the attribute
\* access raises when the content type is None.
ContentTypeCheck(ct) ==
    IF ct.isNone THEN "attribute_error"
    ELSE IF ~StartsWith(ct.text, IMAGE_PREFIX) THEN "reject"
    ELSE "accept"

\* Lines 135-138: the detail of the 400 response.
InvalidTypeDetail(ct) == "Invalid file type: " \o ct.text \o ". Please upload an image."

\* Line 151: the prompt argument handed to generate_image.
EndpointPrompt(p) == IF p # "" THEN p ELSE DEFAULT_PROMPT

\* Line 167: the "prompt" field of the success response is the form field.
ResponsePrompt(t) == task[t].prompt

\* Lines 164-171: the success response.
SuccessResponse(t) ==
    [NoResp EXCEPT !.code = 200, !.prompt = ResponsePrompt(t),
                   !.size = task[t].call.image.size]

\* Mutant of ErrorResponse: the exception's message is dropped.
ErrorResponse_NoMessage(msg) == [NoResp EXCEPT !.code = 500, !.detail = "Internal Server Error"]

\* Lines 180-183: the 500 response.
ErrorResponse(msg) == [NoResp EXCEPT !.code = 500, !.detail = FAILED_PREFIX \o msg]

\* A POST /generate request arrives and its handler starts (line 130).
PostGenerate(t) ==
    /\ host = "server"
    /\ Scheduled(t)
    /\ task[t].op = "idle"
    /\ \E ct \in ContentTypes, p \in Prompts, shape \in SketchShapes :
          Move(t, [Idle EXCEPT !.op = "generate_endpoint", !.pc = "ge_134",
                               !.ctype = ct, !.prompt = p,
                               !.upload = Sketch(t, shape)])
    /\ genMade' = TRUE
    /\ UNCHANGED <<env, handles, status, genSucceeded, firstLoadRet, lastLoad>>

\* Lines 134-138: validate the declared content type.
generate_endpoint_134(t) ==
    /\ At(t, "ge_134")
    /\ Move(t, CASE ContentTypeCheck(task[t].ctype) = "accept" ->
                      [task[t] EXCEPT !.pc = "ge_144"]
                 [] ContentTypeCheck(task[t].ctype) = "reject" ->
                      [task[t] EXCEPT !.pc = "ge_175",
                                      !.exc = InvalidTypeDetail(task[t].ctype)]
                 [] OTHER ->
                      [task[t] EXCEPT !.pc = "ge_179", !.exc = E_NONE_ATTR])
    /\ UNCHANGED <<env, handles, status, history>>

\* Lines 144 and 66: `await file.read()` hands the event loop back.
generate_endpoint_144(t) ==
    /\ At(t, "ge_144")
    /\ task' = [task EXCEPT ![t].pc = "ge_67"]
    /\ running' = 0
    /\ UNCHANGED <<env, handles, status, history>>

\* Lines 67 and 149-154: the coroutine resumes; Image.open decodes the
\* upload or raises; generate_image is called on the event loop.
generate_endpoint_67(t) ==
    /\ At(t, "ge_67")
    /\ \/ Move(t, [task[t] EXCEPT !.pc = "gi_131",
                                  !.sketch = task[t].upload,
                                  !.gprompt = EndpointPrompt(task[t].prompt)])
       \/ Move(t, [task[t] EXCEPT !.pc = "ge_179", !.exc = E_DECODE])
    /\ UNCHANGED <<env, handles, status, history>>

\* Line 158: pil_to_base64 encodes the image or raises.
generate_endpoint_158(t) ==
    /\ At(t, "ge_158")
    /\ \/ Move(t, [task[t] EXCEPT !.pc = "ge_164"])
       \/ Move(t, [task[t] EXCEPT !.pc = "ge_179", !.exc = E_ENCODE])
    /\ UNCHANGED <<env, handles, status, history>>

\* Lines 164-171: the success response is returned.
generate_endpoint_164(t) ==
    /\ At(t, "ge_164")
    /\ Move(t, [task[t] EXCEPT !.pc = "done", !.resp = SuccessResponse(t),
                               !.responses = @ + 1])
    /\ genSucceeded' = TRUE
    /\ UNCHANGED <<env, handles, status, genMade, firstLoadRet, lastLoad>>

\* Lines 173-175: the HTTPException of the validation is re-raised as it is.
generate_endpoint_175(t) ==
    /\ At(t, "ge_175")
    /\ Move(t, [task[t] EXCEPT !.pc = "done",
                               !.resp = [NoResp EXCEPT !.code = 400,
                                                       !.detail = task[t].exc],
                               !.responses = @ + 1])
    /\ UNCHANGED <<env, handles, status, history>>

\* Lines 177-183: any other exception becomes a 500 carrying its message.
generate_endpoint_179(t) ==
    /\ At(t, "ge_179")
    /\ Move(t, [task[t] EXCEPT !.pc = "done", !.resp = ErrorResponse(task[t].exc),
                               !.responses = @ + 1])
    /\ UNCHANGED <<env, handles, status, history>>

\* --------------------------------------------------------- app.model_status

\* Mutant of StatusBody: the handle is the one bound when app.py was
\* imported, not the one read at line 192 on every call.
StatusBody_ImportedOnce(p) ==
    [models_loaded |-> FALSE, status |-> "not_loaded"]

\* Lines 194-197: the response body, from the handle imported at line 192.
StatusBody(p) ==
    [models_loaded |-> p # None,
     status |-> IF p # None THEN "ready" ELSE "not_loaded"]

\* Mutant of model_status: a status query on an empty cache warms it up.
model_status_warms_up ==
    /\ host = "server"
    /\ pipesBuilt < MaxObj
    /\ pipeline' = IF pipeline = None THEN pipesBuilt + 1 ELSE pipeline
    /\ pipesBuilt' = IF pipeline = None THEN pipesBuilt + 1 ELSE pipesBuilt
    /\ statusResp' = [models_loaded |-> pipeline' # None,
                      status |-> IF pipeline' # None THEN "ready" ELSE "not_loaded"]
    /\ statusAt' = [made |-> genMade, succeeded |-> genSucceeded, pipe |-> pipeline]
    /\ UNCHANGED <<env, preprocessor, onDevice, presBuilt, running, task, history>>

\* GET /models/status: a synchronous endpoint, served from the thread pool
\* while the event loop may be inside a generation request.
model_status ==
    /\ host = "server"
    /\ statusResp' = StatusBody(pipeline)
    /\ statusAt' = [made |-> genMade, succeeded |-> genSucceeded, pipe |-> pipeline]
    /\ UNCHANGED <<env, handles, running, task, history>>

\* ------------------------------------------------------------ specification

\* The operation's result reaches its caller (the return value or the
\* exception of a direct call, the HTTP response of a request); the main
\* thread is free for the next operation.
Finish(t) ==
    /\ At(t, "done")
    /\ task' = [task EXCEPT ![t] = Idle]
    /\ running' = 0
    /\ UNCHANGED <<env, handles, status, history>>

Next ==
    \/ \E t \in Tasks : CallLoadModel(t)
    \/ \E t \in Tasks : load_model_31(t)
    \/ \E t \in Tasks : load_model_39(t)
    \/ \E t \in Tasks : load_model_49(t)
    \/ \E t \in Tasks : load_model_56(t)
    \/ \E t \in Tasks : load_model_64(t)
    \/ \E t \in Tasks : load_model_68(t)
    \/ \E t \in Tasks : load_model_return(t)
    \/ \E t \in Tasks : load_model_74(t)
    \/ \E t \in Tasks : CallPreprocessSketch(t)
    \/ \E t \in Tasks : preprocess_sketch_91(t)
    \/ \E t \in Tasks : preprocess_sketch_93(t)
    \/ \E t \in Tasks : preprocess_sketch_96(t)
    \/ \E t \in Tasks : preprocess_sketch_109(t)
    \/ \E t \in Tasks : CallGenerateImage(t)
    \/ \E t \in Tasks : generate_image_131(t)
    \/ \E t \in Tasks : generate_image_137(t)
    \/ \E t \in Tasks : generate_image_140(t)
    \/ \E t \in Tasks : generate_image_151(t)
    \/ \E t \in Tasks : PostGenerate(t)
    \/ \E t \in Tasks : generate_endpoint_134(t)
    \/ \E t \in Tasks : generate_endpoint_144(t)
    \/ \E t \in Tasks : generate_endpoint_67(t)
    \/ \E t \in Tasks : generate_endpoint_158(t)
    \/ \E t \in Tasks : generate_endpoint_164(t)
    \/ \E t \in Tasks : generate_endpoint_175(t)
    \/ \E t \in Tasks : generate_endpoint_179(t)
    \/ model_status
    \/ \E t \in Tasks : Finish(t)

Spec == Init /\ [][Next]_vars


\* ------------------------------------------------------------------ claims

GenerateRequests == {t \in Tasks : task[t].op = "generate_endpoint"}
Answered == {t \in GenerateRequests : task[t].pc = "done"}

\* The pipeline object's construction sequence (load, then move) completed.
Complete(p) == p # None /\ onDevice[p] # "unmoved"

\* C1: after a load_model call that raises, whichever construction step
\* failed, the module-level pipeline handle is null, and the next load_model
\* call does not return a stored handle but constructs again.
C1_FailedLoadLeavesCacheEmpty ==
    /\ \A t \in Tasks : task[t].pc = "lm_74" => pipeline = None
    /\ \A t \in Tasks : task[t].pc = "lm_33" => lastLoad # "raised"

\* C2: a pipeline handle that load_model returns, that generate_image calls,
\* or that the status query reports as loaded is one whose construction
\* sequence (pipeline load, then the move to the device) completed.
C2_NoPartialHandleExposed ==
    /\ \A t \in Tasks : task[t].ret # None => Complete(task[t].ret)
    /\ \A t \in Tasks : task[t].call # NoCall => Complete(task[t].call.pipe)
    /\ statusResp.models_loaded => Complete(statusAt.pipe)

\* C3: a successful POST /generate with an empty prompt reports the default
\* prompt, never the empty string, in the "prompt" field of its response.
C3_EmptyPromptReportsDefault ==
    \A t \in Answered :
        (task[t].resp.code = 200 /\ task[t].prompt = "")
            => (task[t].resp.prompt = DEFAULT_PROMPT /\ task[t].resp.prompt # "")

\* The declared content type starts with "image/".
DeclaresImage(ct) == ~ct.isNone /\ StartsWith(ct.text, IMAGE_PREFIX)

\* The request decoded no upload, constructed no model, preprocessed
\* nothing and called no pipeline.
NoModelWork(t) ==
    /\ task[t].sketch = NoImage
    /\ task[t].steps = {}
    /\ task[t].control = NoImage
    /\ task[t].call = NoCall

\* C4: a POST /generate whose declared content type does not start with
\* "image/" is answered 400 and does no decoding, load, preprocessing or
\* inference.
C4_NonImageRejectedWith400 ==
    \A t \in Answered :
        ~DeclaresImage(task[t].ctype) => (task[t].resp.code = 400 /\ NoModelWork(t))

\* C5: once a load_model call has returned a handle, every later load_model
\* call returns that same handle and runs no construction step.
C5_LoadModelReturnsSameHandle ==
    \A t \in Tasks :
        /\ (task[t].pc \in {"lm_33", "lm_71"} /\ firstLoadRet # None)
              => (pipeline = firstLoadRet /\ task[t].steps = {})
        /\ task[t].ret # None => task[t].ret = firstLoadRet

\* A second load_model call is about to return the handle an earlier call
\* returned.
C5_Witness ==
    \E t \in Tasks :
        /\ task[t].op = "load_model"
        /\ task[t].pc = "lm_33"
        /\ firstLoadRet # None
        /\ pipeline = firstLoadRet

\* C6: once the pipeline handle, or the preprocessor handle, is non-null, no
\* operation assigns it another object or null.
C6_HandlesNeverReassigned ==
    [][/\ pipeline # None => pipeline' = pipeline
       /\ preprocessor # None => preprocessor' = preprocessor]_vars

\* C7: a status query answered before any generation request was made
\* reports not loaded; one answered after a generation request succeeded
\* reports loaded.
C7_StatusFollowsGeneration ==
    /\ (statusResp # NoStatus /\ ~statusAt.made)
          => (~statusResp.models_loaded /\ statusResp.status = "not_loaded")
    /\ (statusResp # NoStatus /\ statusAt.succeeded)
          => (statusResp.models_loaded /\ statusResp.status = "ready")

\* A status query was answered after a successful generation request.
C7_Witness ==
    /\ statusAt.made
    /\ statusAt.succeeded
    /\ statusResp.status = "ready"

\* C8: a POST /generate that passed the content-type check has no response
\* while it runs and exactly one when it ends; if an exception was raised
\* on the way, that response is a 500 whose detail carries the message.
C8_ExceptionsAnsweredWith500 ==
    \A t \in GenerateRequests :
        /\ task[t].responses = (IF task[t].pc = "done" THEN 1 ELSE 0)
        /\ (task[t].resp # NoResp) <=> (task[t].pc = "done")
        /\ (/\ task[t].pc = "done"
            /\ DeclaresImage(task[t].ctype)
            /\ task[t].exc # NoExc)
              => (/\ task[t].resp.code = 500
                  /\ task[t].resp.detail = FAILED_PREFIX \o task[t].exc)

\* A request that passed the check was answered 500 after inference raised.
C8_Witness ==
    \E t \in Answered :
        /\ DeclaresImage(task[t].ctype)
        /\ task[t].exc = E_INFERENCE
        /\ task[t].resp.code = 500

\* C9: a successful POST /generate with a non-empty prompt reports exactly
\* the caller's text, and that text is the positive prompt of the pipeline
\* call.
C9_PromptPassedVerbatim ==
    \A t \in Answered :
        (task[t].resp.code = 200 /\ task[t].prompt # "")
            => (/\ task[t].resp.prompt = task[t].prompt
                /\ task[t].call.prompt = task[t].prompt)

\* A request with a whitespace-only prompt succeeded.
C9_Witness ==
    \E t \in Answered : task[t].resp.code = 200 /\ task[t].prompt = " "

\* C10: a status query changes neither handle, starts no construction and
\* no operation, and reports whether the pipeline handle is non-null.
C10_StatusDoesNotLoad ==
    [][model_status =>
          /\ UNCHANGED <<pipeline, preprocessor, onDevice, pipesBuilt, presBuilt>>
          /\ UNCHANGED <<task, running>>
          /\ statusResp'.models_loaded = (pipeline # None)
          /\ statusResp'.status = (IF pipeline # None THEN "ready" ELSE "not_loaded")]_vars

\* A status query was answered "not_loaded" while a generation request was
\* in flight, and the cache is still empty.
C10_Witness ==
    /\ statusResp.status = "not_loaded"
    /\ statusAt.made
    /\ pipeline = None
    /\ pipesBuilt = 0
    /\ \E t \in GenerateRequests : task[t].pc = "ge_67"

\* Positions inside load_model.
LoadPcs == {"lm_31", "lm_33", "lm_39", "lm_49", "lm_56", "lm_64", "lm_68", "lm_71", "lm_74"}

\* Task t saw the pipeline handle null at line 31 and has not assigned it yet.
SawNull(t) == task[t].pc \in {"lm_39", "lm_49", "lm_56"}

\* C11 as claimed: while one generation request that observed the null
\* handle runs construction, nothing keeps another request in flight from
\* going on to observe the null handle and construct as well.
C11_NothingPreventsSecondLoad ==
    \A t, u \in GenerateRequests :
        (t # u /\ SawNull(t) /\ pipeline = None /\ task[u].pc = "ge_67")
            => ENABLED generate_endpoint_67(u)

\* C11 as amended: no two operations are inside load_model at once, and no
\* second pipeline object is constructed; a request in flight next to one
\* that is constructing waits at its `await` (line 144) until that one has
\* been answered.
C11_LoadsAreSerialised ==
    /\ \A t, u \in Tasks :
          (t # u /\ task[t].pc \in LoadPcs) => task[u].pc \notin LoadPcs
    /\ \A t, u \in GenerateRequests :
          (t # u /\ task[t].pc \in LoadPcs) => task[u].pc = "ge_67"
    /\ pipesBuilt <= 1

\* Two generation requests are in flight with the handle null; one has
\* observed it null and is constructing, the other waits for the event loop.
C11_Witness ==
    \E t, u \in GenerateRequests :
        /\ t # u
        /\ task[t].pc = "lm_56"
        /\ pipeline = None
        /\ task[u].pc = "ge_67"

\* Generation requests: POST /generate and direct generate_image calls.
Generations == {t \in Tasks : task[t].op \in {"generate_endpoint", "generate_image"}}

\* Positions inside preprocess_sketch.
PreprocessPcs == {"ps_91", "ps_93", "ps_96", "ps_109"}

\* The part of a generation an attempted step belongs to: 1 the load,
\* 2 the preprocessing, 3 the inference.
Phase(step) ==
    CASE step \in {"lm_49", "lm_56", "lm_64", "lm_68"} -> 1
      [] step \in {"ps_93", "ps_96", "ps_109"} -> 2
      [] OTHER -> 3

\* C12 as claimed: a generation request's preprocessing has finished when
\* generate_image consults the model cache, so no load runs before it.
C12_PreprocessBeforeLoad ==
    \A t \in Generations :
        task[t].pc \in ({"gi_131"} \cup LoadPcs) => task[t].control.edges

\* C12 as amended: generate_image consults the cache first; a load it
\* triggers is over before preprocessing starts, and preprocessing has
\* finished before the pipeline is called.
C12_LoadBeforePreprocess ==
    \A t \in Generations :
        /\ task[t].pc \in ({"gi_131"} \cup LoadPcs) => task[t].control = NoImage
        /\ task[t].pc \in ({"gi_137"} \cup PreprocessPcs) => pipeline # None
        /\ task[t].call # NoCall => task[t].call.image.edges
        /\ \A i, j \in 1..Len(task[t].tried) :
              i < j => Phase(task[t].tried[i]) <= Phase(task[t].tried[j])

\* A generation request that ran the whole load is now preprocessing.
C12_Witness ==
    \E t \in Generations :
        /\ task[t].pc = "ps_96"
        /\ task[t].tried = <<"lm_49", "lm_56", "lm_64", "lm_68">>

\* The steps a message can come from; none for the exceptions raised
\* before generate_image is called.
Sites(msg) ==
    CASE msg = E_CONTROLNET -> {"lm_49"}
      [] msg = E_PIPELINE -> {"lm_56"}
      [] msg = E_TO_DEVICE -> {"lm_64"}
      [] msg = E_HED -> {"lm_68", "ps_93"}
      [] msg = E_RESAMPLE -> {"ps_96"}
      [] msg = E_EDGES -> {"ps_109"}
      [] msg = E_INFERENCE -> {"gi_151"}
      [] msg = E_NONE_CALL -> {"ps_109", "gi_151"}
      [] msg = E_ENCODE -> {"gi_151"}
      [] OTHER -> {}

Attempted(t) == {task[t].tried[i] : i \in 1..Len(task[t].tried)}

\* C13: a generation request attempts pipeline construction, preprocessor
\* construction and inference at most once each, and the step that raised
\* is the last load, preprocessing or inference step it executes.
C13_NoInternalRetry ==
    \A t \in Generations :
        /\ \A i, j \in 1..Len(task[t].tried) :
              i # j => task[t].tried[i] # task[t].tried[j]
        /\ ~({"lm_68", "ps_93"} \subseteq Attempted(t))
        /\ task[t].exc # NoExc =>
              /\ task[t].pc \in {"lm_74", "ge_175", "ge_179", "done"}
              /\ IF Sites(task[t].exc) = {}
                 THEN task[t].tried = <<>>
                 ELSE /\ task[t].tried # <<>>
                      /\ task[t].tried[Len(task[t].tried)] \in Sites(task[t].exc)

\* A generation request ended with the error of a move that raised, after
\* one attempt at each step up to it.
C13_Witness ==
    \E t \in Generations :
        /\ task[t].pc = "done"
        /\ task[t].exc = E_TO_DEVICE
        /\ task[t].tried = <<"lm_49", "lm_56", "lm_64">>

\* The generations that returned an image to their caller.
Succeeded ==
    {t \in Generations :
        /\ task[t].pc = "done"
        /\ IF task[t].op = "generate_endpoint" THEN task[t].resp.code = 200
           ELSE task[t].exc = NoExc}

Attempts(t, step) == Cardinality({i \in 1..Len(task[t].tried) : task[t].tried[i] = step})

\* C14: a successful generation ran the image preparation, the edge
\* extraction and the pipeline inference exactly once each, and the
\* conditioning image of its pipeline call is the scribble of its own sketch,
\* converted and resized; no pipeline call carries another request's image.
C14_OwnConditioningImage ==
    /\ \A t \in Succeeded :
          /\ Attempts(t, "gi_151") = 1
          /\ Attempts(t, "ps_96") = 1
          /\ Attempts(t, "ps_109") = 1
          /\ task[t].sketch # NoImage
          /\ task[t].call.image = Scribble(Resize(ConvertRGB(task[t].sketch)))
    /\ \A t \in Tasks : task[t].call # NoCall => task[t].call.image.src = t

\* A request succeeded while another one, with a sketch of another shape,
\* was waiting for its upload.
C14_Witness ==
    \E t \in Succeeded, u \in GenerateRequests :
        /\ t # u
        /\ task[u].pc = "ge_67"
        /\ task[u].upload.size # task[t].sketch.size

\* C15: the positive prompt of every pipeline call is non-empty, it is the
\* default prompt when the caller's prompt was empty, and the negative prompt
\* is the fixed one whatever the caller sent.
C15_PromptNeverEmpty ==
    \A t \in Generations :
        task[t].call # NoCall =>
            /\ task[t].call.prompt \notin {"", NoPrompt}
            /\ task[t].prompt = "" => task[t].call.prompt = DEFAULT_PROMPT
            /\ task[t].call.negative_prompt = NEGATIVE_PROMPT

\* A direct generate_image call with an empty prompt reached the pipeline.
C15_Witness ==
    \E t \in Tasks :
        /\ task[t].op = "generate_image"
        /\ task[t].prompt = ""
        /\ task[t].call # NoCall
        /\ task[t].call.prompt = DEFAULT_PROMPT

\* C16: the edge extraction runs with a non-null preprocessor handle, the
\* pipeline inference with both handles non-null, whatever loads failed
\* before; no operation fails with a call on a null handle.
C16_NoCallOnNullHandle ==
    \A t \in Tasks :
        /\ task[t].pc = "ps_109" => preprocessor # None
        /\ task[t].pc = "gi_151" => (pipeline # None /\ preprocessor # None)
        /\ task[t].call # NoCall => task[t].call.pipe # None
        /\ task[t].exc # E_NONE_CALL

\* Inference is about to run in a generation that skipped the load, after a
\* failed load had left a pipeline but no preprocessor, and built the
\* preprocessor itself.
C16_Witness ==
    \E t \in Generations :
        /\ task[t].pc = "gi_151"
        /\ task[t].tried = <<"ps_93", "ps_96", "ps_109">>
        /\ lastLoad = "raised"

====
